---- MODULE Spec2Model ----
(***************************************************************************)
(* A model of src/extractor.py: the Jira issue extraction pipeline.        *)
(*                                                                         *)
(* Python strings that the code inspects or builds character by character  *)
(* are sequences of one-character strings; JSON values are tagged records. *)
(* Two specifications are given: SpecPure applies the pure helpers         *)
(* (clean_text, create_jql_query, generate_output_filename) to bounded     *)
(* inputs, and Spec runs one program invocation (a single extraction, a    *)
(* batch extraction, or a component-catalogue lookup) against a            *)
(* nondeterministic tracker and file system.                               *)
(***************************************************************************)
EXTENDS Integers, Sequences, FiniteSets, TLC

VARIABLES
    op,        \* the top-level function being (or last) executed
    args,      \* its arguments
    ret,       \* its return value, once it has returned
    pc,        \* "idle", "batch_loop", "returned" or "raised"
    exc,       \* the exception that escaped the top-level function ("none" if none)
    fs,        \* the file system: output directory flag and path -> content
    queue,     \* batch_extract_components: components the loop has yet to visit
    results,   \* batch_extract_components: the results dict built so far
    served,    \* the tracker's answers so far, in request order
    last       \* the most recent execution of extract_jira_issues_to_csv

vars == <<op, args, ret, pc, exc, fs, queue, results, served, last>>

(***************************************************************************)
(* Bounds of the model.                                                    *)
(***************************************************************************)
MaxLen == 4          \* longest raw text handed to clean_text
MaxSel == 4          \* longest component selection handed to the pure helpers
MaxIssues == 2       \* most issues in one search response

(***************************************************************************)
(* Python string primitives.                                               *)
(***************************************************************************)
UpperChars == <<"A", "B", "C", "D", "E", "F", "G", "H", "I", "J", "K", "L", "M", "N", "O", "P", "Q", "R", "S", "T", "U", "V", "W", "X", "Y", "Z">>
LowerChars == <<"a", "b", "c", "d", "e", "f", "g", "h", "i", "j", "k", "l", "m", "n", "o", "p", "q", "r", "s", "t", "u", "v", "w", "x", "y", "z">>

\* str.lower() on one character
LowerChar(c) ==
    IF \E i \in 1..Len(UpperChars) : UpperChars[i] = c
    THEN LowerChars[CHOOSE i \in 1..Len(UpperChars) : UpperChars[i] = c]
    ELSE c

\* str.lower()
Lower(s) == [i \in 1..Len(s) |-> LowerChar(s[i])]

\* the characters str.strip() removes (those of them the model's texts use)
Whitespace == {" ", "\t", "\n", "\r", "\f"}

RECURSIVE LStrip(_)
LStrip(s) == IF s # <<>> /\ Head(s) \in Whitespace THEN LStrip(Tail(s)) ELSE s

RECURSIVE RStrip(_)
RStrip(s) ==
    IF s # <<>> /\ s[Len(s)] \in Whitespace
    THEN RStrip(SubSeq(s, 1, Len(s) - 1))
    ELSE s

\* str.strip()
Strip(s) == RStrip(LStrip(s))

\* str.replace(old, new): leftmost, non-overlapping occurrences
RECURSIVE Replace(_, _, _)
Replace(s, old, new) ==
    IF Len(s) < Len(old) THEN s
    ELSE IF SubSeq(s, 1, Len(old)) = old
         THEN new \o Replace(SubSeq(s, Len(old) + 1, Len(s)), old, new)
         ELSE <<Head(s)>> \o Replace(Tail(s), old, new)

\* sep.join(parts)
RECURSIVE Join(_, _)
Join(sep, parts) ==
    IF parts = <<>> THEN <<>>
    ELSE IF Len(parts) = 1 THEN parts[1]
    ELSE parts[1] \o sep \o Join(sep, Tail(parts))

Digits == <<"0", "1", "2", "3", "4", "5", "6", "7", "8", "9">>

RECURSIVE NatStr(_)
NatStr(n) == IF n < 10 THEN <<Digits[n + 1]>> ELSE NatStr(n \div 10) \o <<Digits[(n % 10) + 1]>>

(***************************************************************************)
(* JSON values as Python sees them after response.json().                  *)
(***************************************************************************)
JNull == [t |-> "null"]
JStr(s) == [t |-> "str", v |-> s]
JInt(n) == [t |-> "int", v |-> n]
JBool(b) == [t |-> "bool", v |-> b]

\* str(text) for a value that is not a str
PyStr(x) ==
    CASE x.t = "int" -> IF x.v < 0 THEN <<"-">> \o NatStr(0 - x.v) ELSE NatStr(x.v)
      [] x.t = "bool" -> IF x.v THEN <<"T", "r", "u", "e">> ELSE <<"F", "a", "l", "s", "e">>
      [] x.t = "str" -> x.v

(***************************************************************************)
(* clean_text (lines 91-112)                                               *)
(***************************************************************************)
\* a slip: only the left side is stripped
clean_text_lstrip(text) ==
    IF text.t = "null" THEN <<>>
    ELSE LET s0 == IF text.t # "str" THEN PyStr(text) ELSE text.v
             s1 == LStrip(s0)
             s2 == Replace(s1, <<"\r", "\n">>, <<"\n">>)
         IN  Replace(s2, <<"\r">>, <<"\n">>)

clean_text(text) ==
    IF text.t = "null" THEN <<>>
    ELSE LET s0 == IF text.t # "str" THEN PyStr(text) ELSE text.v
             s1 == Strip(s0)
             s2 == Replace(s1, <<"\r", "\n">>, <<"\n">>)
         IN  Replace(s2, <<"\r">>, <<"\n">>)

(***************************************************************************)
(* create_jql_query (lines 216-231)                                        *)
(***************************************************************************)
Quoted(comp) == <<"\"">> \o comp \o <<"\"">>

\* a slip: the separator of the membership list loses its space
create_jql_query_nospace(project, components) ==
    IF Len(components) = 1
    THEN <<"p", "r", "o", "j", "e", "c", "t", " ", "=", " ">> \o project \o <<" ", "A", "N", "D", " ", "c", "o", "m", "p", "o", "n", "e", "n", "t", " ", "=", " ", "\"">> \o components[1] \o <<"\"">>
    ELSE LET component_list ==
                 Join(<<",">>, [i \in 1..Len(components) |-> Quoted(components[i])])
         IN  <<"p", "r", "o", "j", "e", "c", "t", " ", "=", " ">> \o project \o <<" ", "A", "N", "D", " ", "c", "o", "m", "p", "o", "n", "e", "n", "t", " ", "I", "N", " ", "(">> \o component_list \o <<")">>

create_jql_query(project, components) ==
    IF Len(components) = 1
    THEN <<"p", "r", "o", "j", "e", "c", "t", " ", "=", " ">> \o project \o <<" ", "A", "N", "D", " ", "c", "o", "m", "p", "o", "n", "e", "n", "t", " ", "=", " ", "\"">> \o components[1] \o <<"\"">>
    ELSE LET component_list ==
                 Join(<<",", " ">>, [i \in 1..Len(components) |-> Quoted(components[i])])
         IN  <<"p", "r", "o", "j", "e", "c", "t", " ", "=", " ">> \o project \o <<" ", "A", "N", "D", " ", "c", "o", "m", "p", "o", "n", "e", "n", "t", " ", "I", "N", " ", "(">> \o component_list \o <<")">>

(***************************************************************************)
(* generate_output_filename (lines 233-252)                                *)
(***************************************************************************)
\* comp.lower().replace(' ', '_').replace('/', '_')
SafeName(comp) == Replace(Replace(Lower(comp), <<" ">>, <<"_">>), <<"/">>, <<"_">>)

\* a slip: the boundary of the joined-names case is off by one
generate_output_filename_lt3(components, project) ==
    IF Len(components) = 1
    THEN Lower(project) \o <<"_">> \o SafeName(components[1]) \o <<"_", "i", "s", "s", "u", "e", "s", ".", "c", "s", "v">>
    ELSE IF Len(components) < 3
    THEN LET safe_names == [i \in 1..Len(components) |-> SafeName(components[i])]
             combined == Join(<<"_">>, safe_names)
         IN  Lower(project) \o <<"_">> \o combined \o <<"_", "i", "s", "s", "u", "e", "s", ".", "c", "s", "v">>
    ELSE Lower(project) \o <<"_", "m", "u", "l", "t", "i", "p", "l", "e", "_", "c", "o", "m", "p", "o", "n", "e", "n", "t", "s", "_", "i", "s", "s", "u", "e", "s", ".", "c", "s", "v">>

generate_output_filename(components, project) ==
    IF Len(components) = 1
    THEN Lower(project) \o <<"_">> \o SafeName(components[1]) \o <<"_", "i", "s", "s", "u", "e", "s", ".", "c", "s", "v">>
    ELSE IF Len(components) <= 3
    THEN LET safe_names == [i \in 1..Len(components) |-> SafeName(components[i])]
             combined == Join(<<"_">>, safe_names)
         IN  Lower(project) \o <<"_">> \o combined \o <<"_", "i", "s", "s", "u", "e", "s", ".", "c", "s", "v">>
    ELSE Lower(project) \o <<"_", "m", "u", "l", "t", "i", "p", "l", "e", "_", "c", "o", "m", "p", "o", "n", "e", "n", "t", "s", "_", "i", "s", "s", "u", "e", "s", ".", "c", "s", "v">>

(***************************************************************************)
(* Inputs of the pure helpers.                                             *)
(***************************************************************************)
\* the --project default (line 291) and a mixed-case key
Projects == {<<"S", "P", "R", "L", "L">>, <<"H", "w", "2">>}

\* three names of the static catalogue (lines 161-164): a space, a slash, capitals
ComponentNames == {<<"T", "o", "u", "c", "h", " ", "p", "a", "n", "e", "l">>, <<"I", "/", "O">>, <<"W", "i", "F", "i">>}

TextChars == {"a", " ", "\r", "\n"}

Texts == UNION {[1..n -> TextChars] : n \in 0..MaxLen}

\* what fields.get(...) can hand to clean_text: None, a str, a number, a bool
CleanInputs ==
    {JNull} \cup {JStr(s) : s \in Texts}
            \cup {JInt(n) : n \in {0 - 12, 0, 7, 305}}
            \cup {JBool(b) : b \in BOOLEAN}

Selections == UNION {[1..n -> ComponentNames] : n \in 0..MaxSel}

(***************************************************************************)
(* The file system, data frames and CSV files.                             *)
(***************************************************************************)
Project == <<"S", "P", "R", "L", "L">>

\* os.path.join(output_dir, f"{project.lower()}_{safe_name}_issues.csv"), lines 424-425
OutputPath(output_dir, project, component) ==
    output_dir \o <<"/">> \o Lower(project) \o <<"_">> \o SafeName(component) \o <<"_", "i", "s", "s", "u", "e", "s", ".", "c", "s", "v">>

OutputDir == <<"o", "u", "t", "p", "u", "t">>

Paths == {OutputPath(OutputDir, Project, c) : c \in ComponentNames}

Absent == [k |-> "absent"]
ReadOnly == [k |-> "readonly"]
File(lines) == [k |-> "file", lines |-> lines]
OldFile == File(<<<<<<"o", "l", "d">>>>>>)

\* open(path, "w") succeeds: the directory exists and the file may be written
CanWrite(fsys, path) == fsys.dir /\ fsys.files[path] # ReadOnly

Columns == <<"key", "summary", "description", "root_cause", "corrective_action">>

ColumnText ==
    [key |-> <<"k", "e", "y">>, summary |-> <<"s", "u", "m", "m", "a", "r", "y">>, description |-> <<"d", "e", "s", "c", "r", "i", "p", "t", "i", "o", "n">>,
     root_cause |-> <<"r", "o", "o", "t", "_", "c", "a", "u", "s", "e">>, corrective_action |-> <<"c", "o", "r", "r", "e", "c", "t", "i", "v", "e", "_", "a", "c", "t", "i", "o", "n">>]

\* pd.DataFrame(): no columns, no rows (lines 86, 89)
EmptyDataFrame == [columns |-> <<>>, rows |-> <<>>]

\* pd.DataFrame(list_of_dicts): the columns are the keys of the dicts, so an
\* empty list gives a frame without columns (line 70)
DataFrame(extracted_data) ==
    IF extracted_data = <<>> THEN EmptyDataFrame
    ELSE [columns |-> Columns, rows |-> extracted_data]

\* df.to_csv(index=False): a header line of column names, then a line per row
CsvLines(df) ==
    <<[j \in 1..Len(df.columns) |-> ColumnText[df.columns[j]]]>>
    \o [i \in 1..Len(df.rows) |->
          [j \in 1..Len(df.columns) |-> df.rows[i][df.columns[j]]]]

\* df.to_csv(output_file, ...) when the file can be opened (line 73)
to_csv(fsys, df, output_file) ==
    [fsys EXCEPT !.files[output_file] = File(CsvLines(df))]

(***************************************************************************)
(* The tracker's answers to GET /rest/api/2/search.                        *)
(***************************************************************************)
ConnError == [kind |-> "conn_error"]
Http(status, body) == [kind |-> "http", status |-> status, body |-> body]
NotJson == [json |-> FALSE]
Json(data) == [json |-> TRUE, data |-> data]

NoFields == [x \in {} |-> JNull]

\* the `fields` objects of the issues the tracker holds
FieldObjects ==
    << [summary |-> JStr(<<"C", "r", "a", "c", "k">>), customfield_10606 |-> JNull,
        customfield_11222 |-> JStr(<<"R", "e", "p", "l", "a", "c", "e", " ", "e", "n", "c", "l", "o", "s", "u", "r", "e">>)],
       NoFields,
       [summary |-> JStr(<<" ", "a", "\r", "\n", "b", "\r", "c", " ">>), description |-> JInt(7),
        customfield_10606 |-> JStr(<<"\r", "\n">>), customfield_11222 |-> JStr(<<"f", "i", "x", "\r">>)] >>

ComponentIndex(c) ==
    CASE c = <<"T", "o", "u", "c", "h", " ", "p", "a", "n", "e", "l">> -> 1 [] c = <<"I", "/", "O">> -> 2 [] c = <<"W", "i", "F", "i">> -> 3

\* the issues tagged with component c
Issue(c, j) ==
    [key |-> <<"S", "P", "R", "L", "L", "-">> \o NatStr(10 * ComponentIndex(c) + j), fields |-> FieldObjects[j]]

\* the issue lists a search for component c can return: up to MaxIssues of its
\* issues, in the tracker's order
IssueLists(c) ==
    LET picks == {S \in SUBSET (1..Len(FieldObjects)) : Cardinality(S) <= MaxIssues}
        RECURSIVE Asc(_)
        Asc(S) == IF S = {} THEN <<>>
                  ELSE LET m == CHOOSE x \in S : \A y \in S : x <= y
                       IN  <<Issue(c, m)>> \o Asc(S \ {m})
    IN  {Asc(S) : S \in picks}

SearchResponses(c) ==
    {ConnError, Http(404, NotJson), Http(500, NotJson), Http(200, NotJson)}
    \cup {Http(200, Json([total |-> 0])), Http(200, Json([issues |-> <<>>])),
          Http(200, Json(NoFields))}
    \cup {Http(200, Json([total |-> Len(l), issues |-> l])) : l \in IssueLists(c)}

(***************************************************************************)
(* extract_jira_issues_to_csv (lines 6-89)                                 *)
(***************************************************************************)
\* the result of one execution: the exception that escaped ("none" if it
\* returned), the returned frame, the file system it leaves, the rows it built
Outcome(e, r, fsys, rows) == [exc |-> e, ret |-> r, fs |-> fsys, extracted_data |-> rows]

NoValue == [columns |-> <<"<no value>">>, rows |-> <<>>]

\* response.raise_for_status() raises HTTPError (line 46)
RaisesForStatus(resp) == resp.status >= 400 /\ resp.status < 600

\* fields.get(name, '') (lines 61-64)
FieldGet(fields, name) == IF name \in DOMAIN fields THEN fields[name] ELSE JStr(<<>>)

\* a slip: the two custom fields are swapped
Row_swapped(issue) ==
    [key |-> issue.key,
     summary |-> clean_text(FieldGet(issue.fields, "summary")),
     description |-> clean_text(FieldGet(issue.fields, "description")),
     root_cause |-> clean_text(FieldGet(issue.fields, "customfield_11222")),
     corrective_action |-> clean_text(FieldGet(issue.fields, "customfield_10606"))]

\* the row dict of one issue (lines 56-65)
Row(issue) ==
    [key |-> issue.key,
     summary |-> clean_text(FieldGet(issue.fields, "summary")),
     description |-> clean_text(FieldGet(issue.fields, "description")),
     root_cause |-> clean_text(FieldGet(issue.fields, "customfield_10606")),
     corrective_action |-> clean_text(FieldGet(issue.fields, "customfield_11222"))]

\* a slip: the handler saves the empty frame before returning it
OnFetchError_saves(fsys, output_file) ==
    Outcome("none", EmptyDataFrame,
            IF CanWrite(fsys, output_file) THEN to_csv(fsys, EmptyDataFrame, output_file)
            ELSE fsys,
            <<>>)

\* the two except clauses (lines 84-89): print and return pd.DataFrame()
OnFetchError(fsys, output_file) == Outcome("none", EmptyDataFrame, fsys, <<>>)

\* lines 69-82: build the frame, save it, print the summary, return it
SaveAndReturn(fsys, output_file, extracted_data) ==
    LET df == DataFrame(extracted_data) IN
    IF ~CanWrite(fsys, output_file)
    THEN Outcome("OSError", NoValue, fsys, extracted_data)                \* line 73
    ELSE LET fs2 == to_csv(fsys, df, output_file) IN
         IF \E j \in 1..Len(df.columns) : df.columns[j] = "root_cause"
         THEN Outcome("none", df, fs2, extracted_data)                    \* line 82
         ELSE Outcome("KeyError", NoValue, fs2, extracted_data)           \* line 79

extract_jira_issues_to_csv(fsys, output_file, resp) ==
    IF resp.kind = "conn_error" THEN OnFetchError(fsys, output_file)      \* line 45
    ELSE IF RaisesForStatus(resp) THEN OnFetchError(fsys, output_file)    \* line 46
    ELSE IF ~resp.body.json THEN OnFetchError(fsys, output_file)          \* line 49
    ELSE LET data == resp.body.data IN
         IF "total" \notin DOMAIN data
         THEN Outcome("KeyError", NoValue, fsys, <<>>)                    \* line 50
         ELSE IF "issues" \notin DOMAIN data
         THEN Outcome("KeyError", NoValue, fsys, <<>>)                    \* line 55
         ELSE IF \E i \in 1..Len(data.issues) :
                    {"key", "fields"} \ DOMAIN data.issues[i] # {}
         THEN Outcome("KeyError", NoValue, fsys, <<>>)                    \* lines 56, 60
         ELSE SaveAndReturn(fsys, output_file,
                  [i \in 1..Len(data.issues) |-> Row(data.issues[i])])

\* the record of one execution, kept in `last`
Execution(output_file, resp, o) ==
    [ran |-> TRUE, output_file |-> output_file, response |-> resp,
     exc |-> o.exc, ret |-> o.ret, extracted_data |-> o.extracted_data]

NoExecution ==
    [ran |-> FALSE, output_file |-> <<>>, response |-> ConnError,
     exc |-> "none", ret |-> NoValue, extracted_data |-> <<>>]

(***************************************************************************)
(* get_available_components (lines 134-165)                                *)
(***************************************************************************)
FallbackComponents ==
    << <<"D", "i", "s", "p", "l", "a", "y">>, <<"T", "o", "u", "c", "h", " ", "p", "a", "n", "e", "l">>, <<"B", "a", "t", "t", "e", "r", "y">>, <<"E", "n", "c", "l", "o", "s", "u", "r", "e">>, <<"A", "n", "t", "e", "n", "n", "a">>,
       <<"C", "a", "m", "e", "r", "a">>, <<"S", "c", "a", "n", "n", "e", "r">>, <<"A", "u", "d", "i", "o">>, <<"K", "e", "y", "p", "a", "d">>, <<"U", "S", "B">>, <<"W", "i", "F", "i">>,
       <<"B", "l", "u", "e", "t", "o", "o", "t", "h">>, <<"G", "P", "S">>, <<"S", "e", "n", "s", "o", "r">>, <<"P", "o", "w", "e", "r">>, <<"M", "e", "m", "o", "r", "y">>, <<"P", "r", "o", "c", "e", "s", "s", "o", "r">>,
       <<"I", "/", "O">>, <<"C", "h", "a", "r", "g", "i", "n", "g">>, <<"A", "c", "c", "e", "s", "s", "o", "r", "i", "e", "s">> >>

JList(v) == [t |-> "list", v |-> v]
JDict(v) == [t |-> "dict", v |-> v]

ComponentObjects ==
    {[name |-> <<"T", "o", "u", "c", "h", " ", "p", "a", "n", "e", "l">>], [name |-> <<"W", "i", "F", "i">>], [id |-> <<"1", "0", "0", "0", "1">>]}

CatalogResponses ==
    {ConnError, Http(404, NotJson), Http(500, NotJson), Http(200, NotJson),
     Http(200, Json(JDict([errorMessages |-> <<>>]))), Http(200, Json(JDict(NoFields)))}
    \cup {Http(200, Json(JList(l))) :
            l \in UNION {[1..n -> ComponentObjects] : n \in 0..2}}

\* response.json() on a body that is not JSON raises
\* requests.exceptions.JSONDecodeError, a RequestException (requests 2.27 and
\* later), which the except clause at line 157 catches
get_available_components(resp) ==
    IF resp.kind = "conn_error" THEN [exc |-> "none", ret |-> FallbackComponents]
    ELSE IF RaisesForStatus(resp) THEN [exc |-> "none", ret |-> FallbackComponents]
    ELSE IF ~resp.body.json THEN [exc |-> "none", ret |-> FallbackComponents]
    ELSE LET components == resp.body.data IN
         IF components.t = "dict"                  \* iterating a dict yields its keys
         THEN IF DOMAIN components.v = {}
              THEN [exc |-> "none", ret |-> <<>>]
              ELSE [exc |-> "TypeError", ret |-> <<>>]                    \* line 156
         ELSE IF \E i \in 1..Len(components.v) : "name" \notin DOMAIN components.v[i]
         THEN [exc |-> "KeyError", ret |-> <<>>]                          \* line 156
         ELSE [exc |-> "none",
               ret |-> [i \in 1..Len(components.v) |-> components.v[i].name]]

(***************************************************************************)
(* Initial states.                                                         *)
(***************************************************************************)
\* the output directory may be missing; if it exists, each output file is
\* absent, present from an earlier run, or present and not writable
InitFs ==
    {[dir |-> FALSE, files |-> [p \in Paths |-> Absent]]}
    \cup {[dir |-> TRUE, files |-> f] : f \in [Paths -> {Absent, ReadOnly, OldFile}]}

Idle ==
    /\ op = "none"
    /\ args = <<>>
    /\ ret = <<>>
    /\ pc = "idle"
    /\ exc = "none"
    /\ queue = <<>>
    /\ results = <<>>
    /\ served = <<>>
    /\ last = NoExecution

Init == Idle /\ fs \in InitFs

InitPure == Idle /\ fs = [dir |-> FALSE, files |-> [p \in Paths |-> Absent]]

(***************************************************************************)
(* The pure helpers, applied to bounded inputs.                            *)
(***************************************************************************)
PureFrame == UNCHANGED <<exc, fs, queue, results, served, last>>

CleanTextCall ==
    \E text \in CleanInputs :
        /\ pc = "idle"
        /\ op' = "clean_text"
        /\ args' = [text |-> text]
        /\ ret' = clean_text(text)
        /\ pc' = "returned"
        /\ PureFrame

CreateJqlQueryCall ==
    \E project \in Projects, components \in Selections :
        /\ pc = "idle"
        /\ op' = "create_jql_query"
        /\ args' = [project |-> project, components |-> components]
        /\ ret' = create_jql_query(project, components)
        /\ pc' = "returned"
        /\ PureFrame

GenerateOutputFilenameCall ==
    \E project \in Projects, components \in Selections :
        /\ pc = "idle"
        /\ op' = "generate_output_filename"
        /\ args' = [project |-> project, components |-> components]
        /\ ret' = generate_output_filename(components, project)
        /\ pc' = "returned"
        /\ PureFrame

NextPure == CleanTextCall \/ CreateJqlQueryCall \/ GenerateOutputFilenameCall

SpecPure == InitPure /\ [][NextPure]_vars

(***************************************************************************)
(* One program invocation against the tracker and the file system.         *)
(***************************************************************************)
\* a single extraction, as main() runs it for one selected component
ExtractCall ==
    /\ pc = "idle"
    /\ \E c \in ComponentNames :
       \E resp \in SearchResponses(c) :
          LET jql_query == create_jql_query(Project, <<c>>)
              output_file == OutputPath(OutputDir, Project, c)
              o == extract_jira_issues_to_csv(fs, output_file, resp)
          IN  /\ op' = "extract_jira_issues_to_csv"
              /\ args' = [jql_query |-> jql_query, output_file |-> output_file]
              /\ served' = Append(served, [jql_query |-> jql_query, response |-> resp])
              /\ last' = Execution(output_file, resp, o)
              /\ fs' = o.fs
              /\ exc' = o.exc
              /\ ret' = o.ret
              /\ pc' = IF o.exc = "none" THEN "returned" ELSE "raised"
              /\ UNCHANGED <<queue, results>>

\* the selections batch mode is run with: catalogue names, each at most once
BatchSelections ==
    {s \in UNION {[1..n -> ComponentNames] : n \in 0..Cardinality(ComponentNames)} :
        \A i, j \in 1..Len(s) : i # j => s[i] # s[j]}

\* batch_extract_components up to the loop (lines 413-418)
BatchStart ==
    /\ pc = "idle"
    /\ \E components \in BatchSelections :
          /\ op' = "batch_extract_components"
          /\ args' = [project |-> Project, components |-> components,
                      output_dir |-> OutputDir]
          /\ queue' = components
    /\ fs' = [fs EXCEPT !.dir = TRUE]                       \* os.makedirs, line 416
    /\ results' = <<>>
    /\ pc' = "batch_loop"
    /\ UNCHANGED <<ret, exc, served, last>>

\* one pass of the loop body (lines 420-434)
BatchIteration ==
    /\ pc = "batch_loop"
    /\ queue # <<>>
    /\ LET component == Head(queue)
           jql_query == <<"p", "r", "o", "j", "e", "c", "t", " ", "=", " ">> \o args.project \o <<" ", "A", "N", "D", " ", "c", "o", "m", "p", "o", "n", "e", "n", "t", " ", "=", " ", "\"">>
                        \o component \o <<"\"">>
           output_file == OutputPath(args.output_dir, args.project, component)
       IN  \E resp \in SearchResponses(component) :
              LET o == extract_jira_issues_to_csv(fs, output_file, resp) IN
              /\ served' = Append(served, [jql_query |-> jql_query, response |-> resp])
              /\ last' = Execution(output_file, resp, o)
              /\ fs' = o.fs
              /\ IF o.exc = "none"
                 THEN /\ results' = (component :> o.ret) @@ results
                      /\ queue' = Tail(queue)
                      /\ UNCHANGED <<pc, exc>>
                 ELSE /\ pc' = "raised"
                      /\ exc' = o.exc
                      /\ UNCHANGED <<results, queue>>
    /\ UNCHANGED <<op, args, ret>>

\* line 436
BatchReturn ==
    /\ pc = "batch_loop"
    /\ queue = <<>>
    /\ ret' = results
    /\ pc' = "returned"
    /\ UNCHANGED <<op, args, exc, fs, queue, results, served, last>>

GetAvailableComponentsCall ==
    /\ pc = "idle"
    /\ \E resp \in CatalogResponses :
          LET o == get_available_components(resp) IN
          /\ op' = "get_available_components"
          /\ args' = [project |-> Project]
          /\ served' = Append(served, [jql_query |-> <<>>, response |-> resp])
          /\ exc' = o.exc
          /\ ret' = o.ret
          /\ pc' = IF o.exc = "none" THEN "returned" ELSE "raised"
    /\ UNCHANGED <<fs, queue, results, last>>

Next ==
    \/ ExtractCall
    \/ BatchStart
    \/ BatchIteration
    \/ BatchReturn
    \/ GetAvailableComponentsCall

Spec == Init /\ [][Next]_vars

(***************************************************************************)
(* Vocabulary of the properties.                                           *)
(***************************************************************************)
\* a connection error or a status outside 2xx
TransportFailure(resp) ==
    resp.kind = "conn_error" \/ ~(resp.status >= 200 /\ resp.status < 300)

\* a 2xx answer whose body is an object with `total` and `issues`
WellFormed(resp) ==
    /\ ~TransportFailure(resp)
    /\ resp.body.json
    /\ {"total", "issues"} \subseteq DOMAIN resp.body.data

\* a 2xx answer that is not JSON, or is JSON without the `issues` list
ParseFailure(resp) ==
    /\ ~TransportFailure(resp)
    /\ (~resp.body.json \/ "issues" \notin DOMAIN resp.body.data)

\* the text a field of an issue must become: empty when missing or null
ExpectedText(fields, name) ==
    IF name \notin DOMAIN fields THEN <<>>
    ELSE IF fields[name].t = "null" THEN <<>>
    ELSE clean_text(fields[name])

ExpectedRow(issue) ==
    [key |-> issue.key,
     summary |-> ExpectedText(issue.fields, "summary"),
     description |-> ExpectedText(issue.fields, "description"),
     root_cause |-> ExpectedText(issue.fields, "customfield_10606"),
     corrective_action |-> ExpectedText(issue.fields, "customfield_11222")]

ExpectedRows(resp) ==
    [i \in 1..Len(resp.body.data.issues) |-> ExpectedRow(resp.body.data.issues[i])]

BatchOver == op = "batch_extract_components" /\ pc \in {"returned", "raised"}

\* C1: in a batch over N distinct components where exactly one search request
\* fails in transport and the other N-1 succeed, the call returns N entries:
\* the failed component's entry is the failure marker, every other entry holds
\* that component's own records.
C1_FetchFailureIsolation ==
    LET n == Len(args.components)
        failed == {i \in 1..n : TransportFailure(served[i].response)}
    IN  (/\ BatchOver
         /\ Len(served) = n
         /\ Cardinality(failed) = 1
         /\ \A i \in (1..n) \ failed : WellFormed(served[i].response))
        => /\ pc = "returned"
           /\ DOMAIN ret = {args.components[i] : i \in 1..n}
           /\ \A i \in failed : ret[args.components[i]] = EmptyDataFrame
           /\ \A i \in (1..n) \ failed :
                 ret[args.components[i]].rows = ExpectedRows(served[i].response)

\* C2: a 2xx answer that is not JSON, or is JSON without `issues`, is handled
\* like a transport error: the function returns the failure result and no
\* exception escapes.
C2_ParseFailureIsFailureResult ==
    (last.ran /\ ParseFailure(last.response))
    => (last.exc = "none" /\ last.ret = EmptyDataFrame)

\* C3: a successful fetch with zero issues returns normally with an empty
\* record sequence, leaves a file holding only the header row, and its result
\* differs from the result of a failed fetch.
C3_ZeroMatchIsNotAnError ==
    (/\ last.ran
     /\ WellFormed(last.response)
     /\ last.response.body.data.issues = <<>>
     /\ CanWrite(fs, last.output_file))
    => /\ last.exc = "none"
       /\ last.ret.rows = <<>>
       /\ fs.files[last.output_file]
             = File(<<[j \in 1..Len(Columns) |-> ColumnText[Columns[j]]]>>)
       /\ last.ret # EmptyDataFrame

\* C4: in batch mode a failed write of one component's file does not abort the
\* batch: every other component is still fetched and recorded in the returned
\* mapping.
C4_WriteFailureIsolation ==
    (BatchOver /\ last.ran /\ last.exc = "OSError")
    => \A i \in 1..Len(args.components) :
          OutputPath(args.output_dir, args.project, args.components[i]) # last.output_file
          => /\ i <= Len(served)
             /\ pc = "returned"
             /\ args.components[i] \in DOMAIN ret

\* an execution of extract_jira_issues_to_csv happens in this step
ExtractStep ==
    /\ last'.ran
    /\ Len(served') = Len(served) + 1
    /\ op' \in {"extract_jira_issues_to_csv", "batch_extract_components"}

\* C5: when the fetch fails (transport failure, body that is not JSON, or a body
\* without the expected fields) the execution leaves the file system as it
\* was, and on a transport or decoding failure it returns the failure marker.
C5_NoWriteOnFailedFetch ==
    [][(ExtractStep /\ ~WellFormed(last'.response))
       => /\ fs' = fs
          /\ (TransportFailure(last'.response) \/ ~last'.response.body.json)
                => (last'.exc = "none" /\ last'.ret = EmptyDataFrame)]_vars

C5_Witness ==
    /\ last.ran
    /\ last.response.kind = "conn_error"
    /\ last.ret = EmptyDataFrame
    /\ fs.files[last.output_file] = OldFile

\* the components-list answer cannot be turned into a list of names
CatalogParseFailure(resp) ==
    /\ ~TransportFailure(resp)
    /\ \/ ~resp.body.json
       \/ resp.body.data.t # "list"
       \/ \E i \in 1..Len(resp.body.data.v) : "name" \notin DOMAIN resp.body.data.v[i]

\* C6: get_available_components never raises: on a transport failure or a parse
\* failure of the answer it returns the static list of 20 names.
C6_CatalogFallback ==
    (/\ op = "get_available_components"
     /\ pc # "idle"
     /\ (TransportFailure(served[1].response) \/ CatalogParseFailure(served[1].response)))
    => /\ pc = "returned"
       /\ ret = FallbackComponents
       /\ Len(ret) = 20

\* the membership list as the claim words it: the quoted names in input order,
\* each but the first preceded by a comma and a space
RECURSIVE Listing(_)
Listing(cs) ==
    IF Len(cs) = 1 THEN <<"\"">> \o cs[1] \o <<"\"">>
    ELSE Listing(SubSeq(cs, 1, Len(cs) - 1)) \o <<",", " ", "\"">> \o cs[Len(cs)] \o <<"\"">>

\* C7: for a non-empty selection create_jql_query returns the equality clause
\* when there is one component and the membership clause, listing the
\* components in input order, when there are two or more.
C7_JqlClauseSelection ==
    (op = "create_jql_query" /\ Len(args.components) >= 1)
    => IF Len(args.components) = 1
       THEN ret = <<"p", "r", "o", "j", "e", "c", "t", " ", "=", " ">> \o args.project \o <<" ", "A", "N", "D", " ", "c", "o", "m", "p", "o", "n", "e", "n", "t", " ", "=", " ", "\"">>
                  \o args.components[1] \o <<"\"">>
       ELSE ret = <<"p", "r", "o", "j", "e", "c", "t", " ", "=", " ">> \o args.project \o <<" ", "A", "N", "D", " ", "c", "o", "m", "p", "o", "n", "e", "n", "t", " ", "I", "N", " ", "(">>
                  \o Listing(args.components) \o <<")">>

C7_Witness ==
    /\ op = "create_jql_query"
    /\ Len(args.components) = 3
    /\ args.components[1] # args.components[2]
    /\ args.components[2] # args.components[3]
    /\ Len(ret) > 0

\* the safe name as the claim words it, character by character
SafeChar(c) == IF c \in {" ", "/"} THEN "_" ELSE LowerChar(c)
ExpectedSafeName(comp) == [i \in 1..Len(comp) |-> SafeChar(comp[i])]

\* C8: generate_output_filename returns <project_lower>_<safe>_issues.csv for
\* one component, the underscore-joined safe names in input order for two or
\* three, and <project_lower>_multiple_components_issues.csv for four or more,
\* whatever the components and their order.
C8_FilenamePolicy ==
    (op = "generate_output_filename" /\ Len(args.components) >= 1)
    => LET cs == args.components
           p == Lower(args.project)
           s(i) == ExpectedSafeName(cs[i])
       IN  CASE Len(cs) = 1 -> ret = p \o <<"_">> \o s(1) \o <<"_", "i", "s", "s", "u", "e", "s", ".", "c", "s", "v">>
             [] Len(cs) = 2 -> ret = p \o <<"_">> \o s(1) \o <<"_">> \o s(2) \o <<"_", "i", "s", "s", "u", "e", "s", ".", "c", "s", "v">>
             [] Len(cs) = 3 -> ret = p \o <<"_">> \o s(1) \o <<"_">> \o s(2) \o <<"_">> \o s(3)
                                     \o <<"_", "i", "s", "s", "u", "e", "s", ".", "c", "s", "v">>
             [] OTHER -> ret = p \o <<"_", "m", "u", "l", "t", "i", "p", "l", "e", "_", "c", "o", "m", "p", "o", "n", "e", "n", "t", "s", "_", "i", "s", "s", "u", "e", "s", ".", "c", "s", "v">>

C8_Witness ==
    /\ op = "generate_output_filename"
    /\ Len(args.components) = 3
    /\ args.components[1] = <<"I", "/", "O">>
    /\ args.components[3] = <<"T", "o", "u", "c", "h", " ", "p", "a", "n", "e", "l">>
    /\ args.project = <<"H", "w", "2">>
    /\ Len(ret) > 0

\* C9: clean_text is total; its result holds no carriage return and has no
\* leading or trailing whitespace; absent input gives the empty string.
C9_NormalizationTotality ==
    op = "clean_text"
    => /\ \A i \in 1..Len(ret) : ret[i] # "\r"
       /\ ret # <<>> => (ret[1] \notin Whitespace /\ ret[Len(ret)] \notin Whitespace)
       /\ args.text.t = "null" => ret = <<>>

C9_Witness ==
    /\ op = "clean_text"
    /\ args.text.t = "str"
    /\ Len(args.text.v) = 4
    /\ args.text.v[1] = "a" /\ args.text.v[2] = "\r" /\ args.text.v[3] = "a"
    /\ args.text.v[4] = "\r"
    /\ ret = <<"a", "\n", "a">>

\* C10: on a successful fetch there is exactly one record per issue, in
\* response order, with the issue's key and the four text fields, each the
\* normalized value of its response field, and empty when that field is
\* missing or null; a frame that is returned holds exactly these records.
C10_OneRecordPerIssue ==
    (last.ran /\ WellFormed(last.response))
    => /\ last.extracted_data = ExpectedRows(last.response)
       /\ \A i \in 1..Len(last.extracted_data) :
             DOMAIN last.extracted_data[i]
                = {"key", "summary", "description", "root_cause", "corrective_action"}
       /\ last.exc = "none" => last.ret.rows = last.extracted_data

C10_Witness ==
    /\ last.ran
    /\ WellFormed(last.response)
    /\ last.exc = "none"
    /\ Len(last.response.body.data.issues) = 2
    /\ Len(last.ret.rows) = 2
    /\ last.ret.rows[1].root_cause = <<>>
    /\ last.ret.rows[1].corrective_action = <<"R", "e", "p", "l", "a", "c", "e", " ", "e", "n", "c", "l", "o", "s", "u", "r", "e">>
    /\ last.ret.rows[2].summary = <<>>

====
